---------------------------- MODULE Spec2Model ----------------------------
(***************************************************************************)
(* A model of usb_pd.py: the USBPDSpecParser pipeline (extract_toc,        *)
(* chunk_document, validate_structure, save_outputs) as driven by main.    *)
(*                                                                         *)
(* Text is modelled at the level of characters: a Python str is a sequence *)
(* of one-character strings, a page's text is the sequence of its lines    *)
(* (text.split('\n')), and a page without text (extract_text() returning   *)
(* None or '') is the empty sequence of lines.  The regular expressions    *)
(* are evaluated by sets of positions: each combinator maps the set of     *)
(* positions a match may have reached to the set it may reach next.        *)
(***************************************************************************)
EXTENDS Integers, Sequences, FiniteSets, TLC

(***************************************************************************)
(* Characters and the str methods the program uses.                        *)
(***************************************************************************)
Digit == {"0", "1", "2", "3", "4", "5", "6", "7", "8", "9"}

WS == {" ", "\t"}

Dot == {"."}

Letter == {"A", "B", "C", "E", "N", "O", "S", "T", "F", "G", "H",
           "a", "b", "c", "d", "e", "f", "g", "h", "i", "l", "r", "u", "x", "y", ">"}

\* What '.' of a regular expression matches: every character but '\n'.
AnyChar == Digit \cup WS \cup Dot \cup Letter

RECURSIVE LStrip(_)
LStrip(s) == IF s # <<>> /\ Head(s) \in WS THEN LStrip(Tail(s)) ELSE s

RECURSIVE RStrip(_)
RStrip(s) ==
    IF s # <<>> /\ s[Len(s)] \in WS THEN RStrip(SubSeq(s, 1, Len(s) - 1)) ELSE s

\* str.strip()
Strip(s) == RStrip(LStrip(s))

\* needle in hay
Contains(needle, hay) ==
    \E k \in 1..(Len(hay) - Len(needle) + 1) :
        SubSeq(hay, k, k + Len(needle) - 1) = needle

\* s.count(c)
Count(s, c) == Cardinality({k \in 1..Len(s) : s[k] = c})

\* s.split(c): the pieces between the occurrences of c
RECURSIVE SplitOn(_, _)
SplitOn(s, c) ==
    IF \A k \in 1..Len(s) : s[k] # c
    THEN <<s>>
    ELSE LET k == CHOOSE j \in 1..Len(s) :
                      s[j] = c /\ \A m \in 1..(j - 1) : s[m] # c
         IN  <<SubSeq(s, 1, k - 1)>> \o SplitOn(SubSeq(s, k + 1, Len(s)), c)

\* sep.join(parts)
RECURSIVE Join(_, _)
Join(sep, parts) ==
    IF parts = <<>> THEN <<>>
    ELSE IF Len(parts) = 1 THEN parts[1]
    ELSE parts[1] \o sep \o Join(sep, Tail(parts))

\* s.split()[0]: the first whitespace-delimited token
RECURSIVE TakeToken(_)
TakeToken(s) ==
    IF s = <<>> \/ Head(s) \in WS THEN <<>> ELSE <<Head(s)>> \o TakeToken(Tail(s))

FirstToken(s) == TakeToken(LStrip(s))

DigitValue(c) ==
    CASE c = "0" -> 0 [] c = "1" -> 1 [] c = "2" -> 2 [] c = "3" -> 3
      [] c = "4" -> 4 [] c = "5" -> 5 [] c = "6" -> 6 [] c = "7" -> 7
      [] c = "8" -> 8 [] c = "9" -> 9

\* int(s) of a string of decimal digits
RECURSIVE IntOf(_)
IntOf(s) ==
    IF s = <<>> THEN 0
    ELSE 10 * IntOf(SubSeq(s, 1, Len(s) - 1)) + DigitValue(s[Len(s)])

(***************************************************************************)
(* Regular expressions by position sets.  P is a set of positions 1..Len+1 *)
(* at which the part of the pattern read so far may have stopped.          *)
(***************************************************************************)
\* one character of class C
One(C, s, P) == {p + 1 : p \in {q \in P : q <= Len(s) /\ s[q] \in C}}

\* C*
RECURSIVE Star(_, _, _)
Star(C, s, P) ==
    LET N == One(C, s, P)
    IN  IF N \subseteq P THEN P ELSE Star(C, s, P \cup N)

\* C+
Plus(C, s, P) == Star(C, s, One(C, s, P))

\* (\.\d+)*
RECURSIVE DotDigitsStar(_, _)
DotDigitsStar(s, P) ==
    LET N == Plus(Digit, s, One(Dot, s, P))
    IN  IF N \subseteq P THEN P ELSE DotDigitsStar(s, P \cup N)

\* \d+(\.\d+)*
SectionIdRe(s, P) == DotDigitsStar(s, Plus(Digit, s, P))

\* The pattern has matched the whole of s.
AtEnd(s, P) == (Len(s) + 1) \in P


(***************************************************************************)
(* The Line Classifier: the three patterns of the program.                 *)
(***************************************************************************)
\* re.match(r'^(\d+(\.\d+)*\s+.+)$', line.strip()) in chunk_document
heading_match(line) ==
    LET s == Strip(line)
    IN  AtEnd(s, Plus(AnyChar, s, Plus(WS, s, SectionIdRe(s, {1}))))

\* re.match(r'^\s*\d+(\.\d+)*\s+.+\.+\s+\d+$', l) in extract_toc
toc_like(l) ==
    AtEnd(l, Plus(Digit, l, Plus(WS, l, Plus(Dot, l, Plus(AnyChar, l,
             Plus(WS, l, SectionIdRe(l, Star(WS, l, {1}))))))))

\* \s*\.{2,}\s*(?P<page>\d+)\s*$ from position t: the positions at which the
\* page group may start
PageStarts(l, t) ==
    {p \in Star(WS, l, Plus(Dot, l, One(Dot, l, Star(WS, l, {t})))) :
        AtEnd(l, Star(WS, l, Plus(Digit, l, {p})))}

\* The match of _parse_toc_line's pattern, as the positions of its groups:
\*   ^\s* (?P<section_id>\d+(?:\.\d+)*) \s+ (?P<title>.+?) \s*\.{2,}\s*
\*   (?P<page>\d+) \s*$
\* ids: where section_id starts; ide: where it may end.  \s+ is greedy, so the
\* title starts as late as a match allows; .+? is lazy, so it ends as early.
TocLineMatch(line) ==
    LET ids == CHOOSE p \in Star(WS, line, {1}) :
                   \A q \in Star(WS, line, {1}) : q <= p
        ide == SectionIdRe(line, {ids})
        tss == {ts \in Plus(WS, line, ide) :
                   \E te \in (ts + 1)..(Len(line) + 1) : PageStarts(line, te) # {}}
    IN  IF tss = {} THEN <<>>
        ELSE LET ts == CHOOSE p \in tss : \A q \in tss : q <= p
                 tes == {te \in (ts + 1)..(Len(line) + 1) : PageStarts(line, te) # {}}
                 te == CHOOSE p \in tes : \A q \in tes : p <= q
                 ie == CHOOSE p \in ide : ts \in Plus(WS, line, {p})
                 ps == CHOOSE p \in PageStarts(line, te) : TRUE
                 pe == CHOOSE p \in Plus(Digit, line, {ps}) :
                           \A q \in Plus(Digit, line, {ps}) : q <= p
             IN  <<[section_id |-> SubSeq(line, ids, ie - 1),
                    title |-> SubSeq(line, ts, te - 1),
                    page |-> SubSeq(line, ps, pe - 1)]>>

\* the parent taken as the first segment alone: section_id.split('.')[0]
ParentIdFirstSegment(section_id) ==
    IF Contains(<<".">>, section_id)
    THEN <<SplitOn(section_id, ".")[1]>>
    ELSE <<>>

\* '.'.join(section_id.split('.')[:-1]) if '.' in section_id else None
ParentId(section_id) ==
    IF Contains(<<".">>, section_id)
    THEN <<Join(<<".">>, SubSeq(SplitOn(section_id, "."), 1,
                                Len(SplitOn(section_id, ".")) - 1))>>
    ELSE <<>>

\* _parse_toc_line: <<>> for None, else a one-element sequence holding the entry.
\* doc_title is the same for every entry of a run and is left out.
parse_toc_line(line) ==
    LET m == TocLineMatch(line)
    IN  IF m = <<>> THEN <<>>
        ELSE LET section_id == m[1].section_id
                 title == Strip(m[1].title)
             IN  <<[section_id |-> section_id,
                    title |-> title,
                    page |-> IntOf(m[1].page),
                    level |-> Count(section_id, ".") + 1,
                    parent_id |-> ParentId(section_id),
                    full_path |-> section_id \o <<" ">> \o title]>>

(***************************************************************************)
(* The sort of extract_toc.                                                *)
(***************************************************************************)
\* [int(p) for p in parts]
RECURSIVE IntList(_)
IntList(parts) ==
    IF parts = <<>> THEN <<>> ELSE <<IntOf(Head(parts))>> \o IntList(Tail(parts))

\* The key a sort of the section ids as text would use: the code points.
RECURSIVE CodePoints(_)
CodePoints(str) ==
    IF str = <<>> THEN <<>>
    ELSE <<(IF Head(str) = "." THEN 46 ELSE 48 + DigitValue(Head(str)))>>
         \o CodePoints(Tail(str))

SortKeyAsText(x) == CodePoints(x.section_id)

\* The sort key: lambda x: [int(p) for p in x['section_id'].split('.')]
SortKey(x) == IntList(SplitOn(x.section_id, "."))

\* Python's a < b on lists of integers
RECURSIVE ListLess(_, _)
ListLess(a, b) ==
    IF b = <<>> THEN FALSE
    ELSE IF a = <<>> THEN TRUE
    ELSE IF Head(a) # Head(b) THEN Head(a) < Head(b)
    ELSE ListLess(Tail(a), Tail(b))

\* e put behind every element whose key is not greater than its own
RECURSIVE InsertByKey(_, _)
InsertByKey(sorted, e) ==
    IF sorted = <<>> THEN <<e>>
    ELSE IF ListLess(SortKey(e), SortKey(Head(sorted)))
         THEN <<e>> \o sorted
         ELSE <<Head(sorted)>> \o InsertByKey(Tail(sorted), e)

\* entries.sort(key=...): list.sort is stable, which fixes the result
RECURSIVE SortEntries(_)
SortEntries(entries) ==
    IF entries = <<>> THEN <<>>
    ELSE InsertByKey(SortEntries(SubSeq(entries, 1, Len(entries) - 1)),
                     entries[Len(entries)])

(***************************************************************************)
(* difflib.SequenceMatcher(None, a, b).ratio(), for strings shorter than   *)
(* the 200 characters at which autojunk starts.                            *)
(***************************************************************************)
\* the length of the common run of a from i and b from j
RECURSIVE RunLen(_, _, _, _)
RunLen(a, b, i, j) ==
    IF i <= Len(a) /\ j <= Len(b) /\ a[i] = b[j]
    THEN 1 + RunLen(a, b, i + 1, j + 1)
    ELSE 0

\* find_longest_match: the longest block, the earliest in a, then in b
LongestMatch(a, b) ==
    LET starts == (1..Len(a)) \X (1..Len(b))
        best == CHOOSE k \in 0..Len(a) :
                    /\ \A ij \in starts : RunLen(a, b, ij[1], ij[2]) <= k
                    /\ k = 0 \/ \E ij \in starts : RunLen(a, b, ij[1], ij[2]) = k
        i == CHOOSE x \in 1..Len(a) :
                 /\ \E y \in 1..Len(b) : RunLen(a, b, x, y) = best
                 /\ \A x2 \in 1..(x - 1) : \A y \in 1..Len(b) : RunLen(a, b, x2, y) # best
        j == CHOOSE y \in 1..Len(b) :
                 /\ RunLen(a, b, i, y) = best
                 /\ \A y2 \in 1..(y - 1) : RunLen(a, b, i, y2) # best
    IN  IF best = 0 THEN [i |-> 1, j |-> 1, size |-> 0]
        ELSE [i |-> i, j |-> j, size |-> best]

\* get_matching_blocks: the total size of the blocks
RECURSIVE MatchingSize(_, _)
MatchingSize(a, b) ==
    IF a = <<>> \/ b = <<>> THEN 0
    ELSE LET m == LongestMatch(a, b)
         IN  IF m.size = 0 THEN 0
             ELSE m.size
                  + MatchingSize(SubSeq(a, 1, m.i - 1), SubSeq(b, 1, m.j - 1))
                  + MatchingSize(SubSeq(a, m.i + m.size, Len(a)),
                                 SubSeq(b, m.j + m.size, Len(b)))

\* ratio(): 2.0 * matches / length, 1.0 when both are empty; kept as an exact
\* fraction num/den (the floats of two such fractions compare as they do)
Ratio(a, b) ==
    IF Len(a) + Len(b) = 0 THEN [num |-> 1, den |-> 1]
    ELSE [num |-> 2 * MatchingSize(a, b), den |-> Len(a) + Len(b)]

\* r > q on fractions
RatGreater(r, q) == r.num * q.den > q.num * r.den

(***************************************************************************)
(* The documents the runs are started on.  A document is its sequence of   *)
(* pages; the empty sequence of lines is a page without text.              *)
(***************************************************************************)
MaxItems == 4

MaxHeadings == 3

MaxTocRows == 3

MaxLikeRows == 5

SeqsUpTo(S, n) == UNION {[1..k -> S] : k \in 0..n}

LineContents == <<"C", "O", "N", "T", "E", "N", "T", "S">>

LineText == <<"x">>

Heading1A == <<"1", " ", "A">>

Heading21B == <<"2", ".", "1", " ", "B">>

Heading2B == <<"2", " ", "B">>

Heading3C == <<"3", " ", "C">>

Row1A == <<"1", " ", "A", ".", ".", "1">>

Row2B == <<"2", " ", "B", ".", ".", "1">>

Row3C == <<"3", " ", "C", ".", ".", "1">>

Row2A == <<"2", " ", "A", ".", ".", "1">>

Row29A == <<"2", ".", "9", " ", "A", ".", ".", "1">>

Row210A == <<"2", ".", "1", "0", " ", "A", ".", ".", "1">>

Row29B == <<"2", ".", "9", " ", "B", ".", ".", "1">>

RowLike1A == <<"1", " ", "A", ".", ".", " ", "1">>

\* Short documents of every shape: up to MaxItems lines and page breaks (the
\* empty item) in any order; two breaks in a row leave a page without text.
MixedDocs ==
    {SplitOn(items, <<>>) :
        items \in SeqsUpTo({Heading1A, Heading21B, LineText, LineContents, Row1A, <<>>},
                           MaxItems)}

\* A contents page listing some of three sections in any order, then a body page
\* of up to MaxHeadings headings of these sections.
TocAndBodyDocs ==
    {<<(<<LineContents>> \o rows), body>> :
        rows \in {r \in SeqsUpTo({Row1A, Row2B, Row3C}, 3) :
                     \A m, n \in 1..Len(r) : m # n => r[m] # r[n]},
        body \in SeqsUpTo({Heading1A, Heading2B, Heading3C}, MaxHeadings)}

\* A contents page of up to MaxTocRows rows whose section ids sort differently
\* as integers and as strings.
SortDocs ==
    {<< <<LineContents>> \o rows >> :
        rows \in SeqsUpTo({Row2A, Row29A, Row210A, Row29B}, MaxTocRows)}

\* One page without the marker, of 1..MaxLikeRows rows that are or are not of
\* the shape extract_toc counts.
LikeRowDocs ==
    {<<rows>> : rows \in (SeqsUpTo({RowLike1A, Row1A}, MaxLikeRows) \ {<<>>})}

ParseRow213 ==
    <<"2", ".", "1", ".", "3", " ", "A", "b", " ", ".", ".", ".", ".", " ", "4", "5">>

ParseRowPadded == <<" ", "1", " ", "A", " ", "b", ".", ".", "7", " ">>

ParseRowNoTitle == <<"1", " ", " ", ".", ".", "3">>

ParseRow102 == <<"1", "0", ".", "2", " ", "x", ".", " ", ".", ".", "1">>

\* A contents page of one row: three levels, padding, a title of two words,
\* a title that is blank, a dot in the title.
ParseDocs ==
    {<< <<LineContents, row>> >> :
        row \in {ParseRow213, ParseRowPadded, ParseRowNoTitle, ParseRow102}}

MaxFuzzyHeadings == 2

FuzzyRowShort == <<"1", " ", "A", "b", "c", "d", "e", "f", "g", "h", "i", ".", ".", "1">>

FuzzyRowLong == <<"1", " ", "A", "b", "c", "d", "e", "f", "g", "h", "i", ".", ".", ".", ".", ".", "1">>

FuzzyRowOther == <<"2", " ", "A", "b", "c", "d", "e", "f", "g", "h", "i", ".", ".", "1">>

HeadingNear == <<"1", " ", "A", "b", "c", "d", "e", "f", "g">>

HeadingClose == <<"2", " ", "A", "b", "c", "d", "e", "f", "g", "h", "i">>

HeadingFar == <<"1", " ", "A", "x", "x", "x", "x", "x", "x", "x", "i">>

\* A contents page whose rows give the paths "1 Abcdefghi" and "2 Abcdefghi",
\* and a body of headings that are near to them: of the path "1 Abcdefghi",
\* FuzzyRowShort is at ratio 22/25, FuzzyRowLong at 22/28, HeadingNear at
\* 18/20, HeadingClose, which is the other path, at 20/22, HeadingFar at 8/22.
FuzzyDocs ==
    {<< <<LineContents>> \o rows, body >> :
        rows \in {<<FuzzyRowShort>>, <<FuzzyRowLong>>, <<FuzzyRowShort, FuzzyRowOther>>},
        body \in SeqsUpTo({HeadingNear, HeadingClose, HeadingFar}, MaxFuzzyHeadings)}

MaxWindowPages == 6

\* Up to MaxWindowPages pages, each without text, a ToC page or a plain page:
\* windows that follow one another, and windows cut at the last page.
WindowDocs == SeqsUpTo({<<>>, <<LineContents>>, <<LineText>>}, MaxWindowPages)

MaxBodyLines == 3

HeadingPadded == <<" ", "2", " ", "B", " ">>

LineTablePadded == <<" ", "T", "a", "b", "l", "e">>

LineFigure == <<"F", "i", "g", "u", "r", "e">>

\* One page, a ToC page by its first line, of up to MaxBodyLines more lines:
\* headings, one of them padded, and lines that name a table or a figure.
BodyDocs ==
    {<< <<LineContents>> \o body >> :
        body \in SeqsUpTo({Heading1A, HeadingPadded, LineText, LineTablePadded, LineFigure},
                          MaxBodyLines)}

Documents ==
    MixedDocs \cup TocAndBodyDocs \cup SortDocs \cup LikeRowDocs \cup ParseDocs
        \cup FuzzyDocs \cup WindowDocs \cup BodyDocs

(***************************************************************************)
(* The state: the input, main's position, and the fields and locals of     *)
(* USBPDSpecParser's methods.  None is the empty sequence and a value v    *)
(* that may be None is <<v>>.                                              *)
(***************************************************************************)
VARIABLES
    pages,              \* pdf.pages: the text of each page, as its lines
    path_exists,        \* os.path.exists(args.input_pdf)
    pc,                 \* where main is
    calls,              \* the methods main has called so far, in order
    i,                  \* extract_toc: the index (from 0) of the page to scan
    toc_pages,          \* extract_toc: the texts of the claimed pages
    visited_pages,      \* extract_toc: the indices claimed
    toc_entries,        \* self.toc_entries
    pg,                 \* chunk_document: the page_number of the page in hand
    ln,                 \* chunk_document: the line in hand on that page
    current_chunk,      \* chunk_document: the open chunk, or None
    heading_stack,      \* chunk_document: (full_heading, level) frames
    chunks,             \* chunk_document: the finalized chunks
    document_chunks,    \* self.document_chunks
    validation_report,  \* self.validation_report, None for {}
    out_file,           \* usb_pd.jsonl: None while it does not exist
    exit_code           \* what main returned, None while it runs

vars == <<pages, path_exists, pc, calls, i, toc_pages, visited_pages, toc_entries,
          pg, ln, current_chunk, heading_stack, chunks, document_chunks,
          validation_report, out_file, exit_code>>

inputVars == <<pages, path_exists>>

tocLocals == <<i, toc_pages, visited_pages>>

chunkLocals == <<pg, ln, current_chunk, heading_stack, chunks>>

Init ==
    /\ pages \in Documents
    /\ path_exists \in BOOLEAN
    /\ pc = "main"
    /\ calls = <<>>
    /\ i = 0
    /\ toc_pages = <<>>
    /\ visited_pages = {}
    /\ toc_entries = <<>>
    /\ pg = 1
    /\ ln = 1
    /\ current_chunk = <<>>
    /\ heading_stack = <<>>
    /\ chunks = <<>>
    /\ document_chunks = <<>>
    /\ validation_report = <<>>
    /\ out_file = <<>>
    /\ exit_code = <<>>

(***************************************************************************)
(* main: the order of the calls, and the one except clause.                *)
(***************************************************************************)
\* main with the save moved up, before the chunking and the validation
NextCallSavingFirst(method) ==
    CASE method = "extract_toc" -> "save_outputs"
      [] method = "save_outputs" -> "chunk_document"
      [] method = "chunk_document" -> "validate_structure"
      [] method = "validate_structure" -> "return"

\* The call main makes once `method` has returned; "return" is the summary
\* and `return 0`.
NextCall(method) ==
    CASE method = "extract_toc" -> "chunk_document"
      [] method = "chunk_document" -> "validate_structure"
      [] method = "validate_structure" -> "save_outputs"
      [] method = "save_outputs" -> "return"

\* `method` returns to main, which goes on to its next statement.
Returns(method) ==
    /\ pc' = NextCall(method)
    /\ calls' = IF NextCall(method) = "return" THEN calls
                ELSE Append(calls, NextCall(method))

\* An exception leaves the try block: except Exception prints it, return 1.
Raises ==
    /\ pc' = "exit"
    /\ exit_code' = <<1>>

\* os.path.exists fails: FileNotFoundError
main_input_missing ==
    /\ pc = "main"
    /\ ~path_exists
    /\ Raises
    /\ UNCHANGED <<inputVars, calls, tocLocals, toc_entries, chunkLocals,
                   document_chunks, validation_report, out_file>>

\* USBPDSpecParser(args.input_pdf), then parser.extract_toc()
main_call_extract_toc ==
    /\ pc = "main"
    /\ path_exists
    /\ pc' = "extract_toc"
    /\ calls' = Append(calls, "extract_toc")
    /\ toc_entries' = <<>>
    /\ document_chunks' = <<>>
    /\ validation_report' = <<>>
    /\ i' = 0
    /\ toc_pages' = <<>>
    /\ visited_pages' = {}
    /\ UNCHANGED <<inputVars, chunkLocals, out_file, exit_code>>

\* the summary is printed and main returns 0
main_return ==
    /\ pc = "return"
    /\ pc' = "exit"
    /\ exit_code' = <<0>>
    /\ UNCHANGED <<inputVars, calls, tocLocals, toc_entries, chunkLocals,
                   document_chunks, validation_report, out_file>>

(***************************************************************************)
(* extract_toc                                                             *)
(***************************************************************************)
MarkerTableOfContents ==
    <<"T", "a", "b", "l", "e", " ", "o", "f", " ", "C", "o", "n", "t", "e", "n", "t", "s">>

MarkerContents == <<"C", "O", "N", "T", "E", "N", "T", "S">>

TocLikeMin == 5

WindowSize == 5

Min(a, b) == IF a <= b THEN a ELSE b

\* has_toc_keyword or toc_like_lines >= 5.  Neither marker holds a '\n', so
\* it is in the text when it is in one of its lines.
IsTocPage(text) ==
    LET has_toc_keyword ==
            \E k \in 1..Len(text) :
                Contains(MarkerTableOfContents, text[k]) \/ Contains(MarkerContents, text[k])
        toc_like_lines == Cardinality({k \in 1..Len(text) : toc_like(text[k])})
    IN  has_toc_keyword \/ toc_like_lines >= TocLikeMin

\* the slice taken one page late: pdf.pages[k+1:k+5]
WindowAfter(pgs, k) == SubSeq(pgs, k + 2, Min(k + WindowSize, Len(pgs)))

\* [p.extract_text() for p in pdf.pages[k:k+5]], k counted from 0
Window(pgs, k) == SubSeq(pgs, k + 1, Min(k + WindowSize, Len(pgs)))

\* only the page that starts the window is marked as visited
WindowRangeStartOnly(pgs, k) == {k}

\* range(k, min(k+5, len(pdf.pages)))
WindowRange(pgs, k) == k..(Min(k + WindowSize, Len(pgs)) - 1)

\* one turn of `for i, page in enumerate(pdf.pages)`
extract_toc_page ==
    /\ pc = "extract_toc"
    /\ i < Len(pages)
    /\ LET text == pages[i + 1]
       IN  IF text # <<>> /\ IsTocPage(text) /\ i \notin visited_pages
           THEN /\ toc_pages' = toc_pages \o Window(pages, i)
                /\ visited_pages' = visited_pages \cup WindowRange(pages, i)
           ELSE UNCHANGED <<toc_pages, visited_pages>>
    /\ i' = i + 1
    /\ UNCHANGED <<inputVars, pc, calls, toc_entries, chunkLocals, document_chunks,
                   validation_report, out_file, exit_code>>

\* raise ValueError("No Table of Contents pages detected in the document")
extract_toc_raise ==
    /\ pc = "extract_toc"
    /\ i = Len(pages)
    /\ toc_pages = <<>>
    /\ Raises
    /\ UNCHANGED <<inputVars, calls, tocLocals, toc_entries, chunkLocals,
                   document_chunks, validation_report, out_file>>

\* the entries of the lines of one page, in order
RECURSIVE LineEntries(_)
LineEntries(lines) ==
    IF lines = <<>> THEN <<>>
    ELSE parse_toc_line(Head(lines)) \o LineEntries(Tail(lines))

\* `for page_text in toc_pages`: a page without text is skipped
RECURSIVE PageEntries(_)
PageEntries(texts) ==
    IF texts = <<>> THEN <<>>
    ELSE LineEntries(Head(texts)) \o PageEntries(Tail(texts))

\* the entries are parsed, sorted, stored and returned
extract_toc_return ==
    /\ pc = "extract_toc"
    /\ i = Len(pages)
    /\ toc_pages # <<>>
    /\ toc_entries' = SortEntries(PageEntries(toc_pages))
    /\ Returns("extract_toc")
    /\ pg' = 1
    /\ ln' = 1
    /\ current_chunk' = <<>>
    /\ heading_stack' = <<>>
    /\ chunks' = <<>>
    /\ UNCHANGED <<inputVars, tocLocals, document_chunks, validation_report,
                   out_file, exit_code>>

(***************************************************************************)
(* chunk_document                                                          *)
(***************************************************************************)
\* the loop with > for >=: a frame of the same level stays
RECURSIVE PopFramesDeeper(_, _)
PopFramesDeeper(stack, level) ==
    IF stack # <<>> /\ stack[Len(stack)].level > level
    THEN PopFramesDeeper(SubSeq(stack, 1, Len(stack) - 1), level)
    ELSE stack

\* while heading_stack and heading_stack[-1][1] >= level: heading_stack.pop()
RECURSIVE PopFrames(_, _)
PopFrames(stack, level) ==
    IF stack # <<>> /\ stack[Len(stack)].level >= level
    THEN PopFrames(SubSeq(stack, 1, Len(stack) - 1), level)
    ELSE stack

\* [h[0] for h in heading_stack]
RECURSIVE Headings(_)
Headings(stack) ==
    IF stack = <<>> THEN <<>> ELSE <<Head(stack).heading>> \o Headings(Tail(stack))

\* current_chunk['page_range'] = (current_chunk['page_range'][0], page.page_number-1)
CloseChunk(chunk, page_number) ==
    [chunk EXCEPT !.page_range = <<chunk.page_range[1], page_number - 1>>]

\* the chunk a heading opens
OpenChunk(stack, full_heading, page_number) ==
    [section_path |-> Join(<<" ", ">", " ">>, Headings(stack)),
     start_heading |-> full_heading,
     content |-> <<>>,
     tables |-> <<>>,
     figures |-> <<>>,
     page_range |-> <<page_number, page_number>>]

\* the line is added to the content without its newline
AddLineBare(chunk, line) ==
    [chunk EXCEPT
        !.content = @ \o line,
        !.tables = IF Contains(<<"T", "a", "b", "l", "e">>, line)
                   THEN Append(@, Strip(line)) ELSE @,
        !.figures = IF Contains(<<"F", "i", "g", "u", "r", "e">>, line)
                    THEN Append(@, Strip(line)) ELSE @]

\* `elif current_chunk`: the line is added to the open chunk
AddLine(chunk, line) ==
    [chunk EXCEPT
        !.content = @ \o line \o <<"\n">>,
        !.tables = IF Contains(<<"T", "a", "b", "l", "e">>, line)
                   THEN Append(@, Strip(line)) ELSE @,
        !.figures = IF Contains(<<"F", "i", "g", "u", "r", "e">>, line)
                    THEN Append(@, Strip(line)) ELSE @]

\* a chunker that keeps text met before the first heading in a chunk of its own
BodyLineWithPreamble(current, line, page_number) ==
    IF current # <<>> THEN <<AddLine(current[1], line)>>
    ELSE <<AddLine(OpenChunk(<<>>, <<>>, page_number), line)>>

\* a line that is no heading: added to the open chunk (`elif current_chunk`),
\* dropped when there is none
BodyLine(current, line, page_number) ==
    IF current # <<>> THEN <<AddLine(current[1], line)>> ELSE current

\* on to the next line of the page, or to the next page
NextLine ==
    IF ln < Len(pages[pg])
    THEN ln' = ln + 1 /\ pg' = pg
    ELSE ln' = 1 /\ pg' = pg + 1

\* `if not text: continue`
chunk_skip_page ==
    /\ pc = "chunk_document"
    /\ pg <= Len(pages)
    /\ pages[pg] = <<>>
    /\ pg' = pg + 1
    /\ UNCHANGED <<inputVars, pc, calls, tocLocals, toc_entries, ln, current_chunk,
                   heading_stack, chunks, document_chunks, validation_report,
                   out_file, exit_code>>

\* a line that matches the heading pattern
chunk_heading_line ==
    /\ pc = "chunk_document"
    /\ pg <= Len(pages)
    /\ pages[pg] # <<>>
    /\ heading_match(pages[pg][ln])
    /\ LET full_heading == Strip(pages[pg][ln])
           section_id == FirstToken(full_heading)
           level == Count(section_id, ".") + 1
           stack == Append(PopFrames(heading_stack, level),
                           [heading |-> full_heading, level |-> level])
       IN  /\ chunks' = IF current_chunk # <<>>
                        THEN Append(chunks, CloseChunk(current_chunk[1], pg))
                        ELSE chunks
           /\ heading_stack' = stack
           /\ current_chunk' = <<OpenChunk(stack, full_heading, pg)>>
    /\ NextLine
    /\ UNCHANGED <<inputVars, pc, calls, tocLocals, toc_entries, document_chunks,
                   validation_report, out_file, exit_code>>

\* a line that does not: added to the open chunk, dropped when there is none
chunk_body_line ==
    /\ pc = "chunk_document"
    /\ pg <= Len(pages)
    /\ pages[pg] # <<>>
    /\ ~heading_match(pages[pg][ln])
    /\ current_chunk' = BodyLine(current_chunk, pages[pg][ln], pg)
    /\ NextLine
    /\ UNCHANGED <<inputVars, pc, calls, tocLocals, toc_entries, heading_stack, chunks,
                   document_chunks, validation_report, out_file, exit_code>>

\* a return without the append of the chunk that is still open
chunk_return_leaving_open ==
    /\ pc = "chunk_document"
    /\ pg > Len(pages)
    /\ chunks' = chunks
    /\ document_chunks' = chunks'
    /\ Returns("chunk_document")
    /\ UNCHANGED <<inputVars, tocLocals, toc_entries, pg, ln, current_chunk,
                   heading_stack, validation_report, out_file, exit_code>>

\* after the last page: the open chunk is appended, the chunks stored and returned
chunk_return ==
    /\ pc = "chunk_document"
    /\ pg > Len(pages)
    /\ chunks' = IF current_chunk # <<>> THEN Append(chunks, current_chunk[1]) ELSE chunks
    /\ document_chunks' = chunks'
    /\ Returns("chunk_document")
    /\ UNCHANGED <<inputVars, tocLocals, toc_entries, pg, ln, current_chunk,
                   heading_stack, validation_report, out_file, exit_code>>

(***************************************************************************)
(* validate_structure                                                      *)
(***************************************************************************)
FuzzyConsiderTenths == 8

FuzzyAcceptTenths == 9

Tenths(n) == [num |-> n, den |-> 10]

InSeq(x, seq) == \E k \in 1..Len(seq) : seq[k] = x

\* the keys as a list that keeps every repetition
DictKeysRepeated(keys) == keys

\* the keys of a dict built from `keys` in turn: each once, where it first came
RECURSIVE DictKeys(_)
DictKeys(keys) ==
    IF keys = <<>> THEN <<>>
    ELSE LET front == DictKeys(SubSeq(keys, 1, Len(keys) - 1))
             last == keys[Len(keys)]
         IN  IF InSeq(last, front) THEN front ELSE Append(front, last)

\* [entry['full_path'] for entry in self.toc_entries]
RECURSIVE FullPaths(_)
FullPaths(entries) ==
    IF entries = <<>> THEN <<>>
    ELSE <<Head(entries).full_path>> \o FullPaths(Tail(entries))

\* [chunk['start_heading'] for chunk in self.document_chunks]
RECURSIVE StartHeadings(_)
StartHeadings(cs) ==
    IF cs = <<>> THEN <<>>
    ELSE <<Head(cs).start_heading>> \o StartHeadings(Tail(cs))

\* `for chunk_path in chunked_sections`: best is (best_ratio, best_match)
RECURSIVE BestMatch(_, _, _)
BestMatch(toc_path, chunk_paths, best) ==
    IF chunk_paths = <<>> THEN best
    ELSE LET ratio == Ratio(toc_path, Head(chunk_paths))
         IN  BestMatch(toc_path, Tail(chunk_paths),
                       IF /\ RatGreater(ratio, Tenths(FuzzyConsiderTenths))
                          /\ RatGreater(ratio, best.best_ratio)
                       THEN [best_ratio |-> ratio, best_match |-> <<Head(chunk_paths)>>]
                       ELSE best)

\* the loop with the test of line 172 left to the test of line 168
IsMatchedWhenConsidered(toc_path, chunked_sections) ==
    IF InSeq(toc_path, chunked_sections) THEN TRUE
    ELSE LET best == BestMatch(toc_path, chunked_sections,
                               [best_ratio |-> [num |-> 0, den |-> 1], best_match |-> <<>>])
         IN  /\ best.best_match # <<>>
             /\ best.best_match[1] # <<>>

\* whether the loop appends toc_path to matched (else to missing_from_chunks)
IsMatched(toc_path, chunked_sections) ==
    IF InSeq(toc_path, chunked_sections) THEN TRUE
    ELSE LET best == BestMatch(toc_path, chunked_sections,
                               [best_ratio |-> [num |-> 0, den |-> 1], best_match |-> <<>>])
         IN  /\ best.best_match # <<>>
             /\ best.best_match[1] # <<>>
             /\ RatGreater(best.best_ratio, Tenths(FuzzyAcceptTenths))

\* `for toc_path, toc_entry in toc_sections.items()`: the paths appended to
\* matched (want = TRUE) or to missing_from_chunks (want = FALSE)
RECURSIVE Sorted(_, _, _)
Sorted(toc_sections, chunked_sections, want) ==
    IF toc_sections = <<>> THEN <<>>
    ELSE (IF IsMatched(Head(toc_sections), chunked_sections) = want
          THEN <<Head(toc_sections)>> ELSE <<>>)
         \o Sorted(Tail(toc_sections), chunked_sections, want)

\* [h for h in headings if h in toc_order]
RECURSIVE KnownTo(_, _)
KnownTo(headings, toc_order) ==
    IF headings = <<>> THEN <<>>
    ELSE (IF InSeq(Head(headings), toc_order) THEN <<Head(headings)>> ELSE <<>>)
         \o KnownTo(Tail(headings), toc_order)

\* a comparison that stops at the first mismatch
RECURSIVE OutOfOrderFirstOnly(_, _, _)
OutOfOrderFirstOnly(toc_order, chunk_order, k) ==
    IF k >= Len(toc_order) \/ k >= Len(chunk_order) THEN <<>>
    ELSE IF toc_order[k + 1] # chunk_order[k + 1]
         THEN <<[expected |-> toc_order[k + 1],
                 found |-> chunk_order[k + 1],
                 position |-> k]>>
         ELSE OutOfOrderFirstOnly(toc_order, chunk_order, k + 1)

\* the comparison with its positions counted from 1
RECURSIVE OutOfOrderFromOne(_, _, _)
OutOfOrderFromOne(toc_order, chunk_order, k) ==
    IF k >= Len(toc_order) \/ k >= Len(chunk_order) THEN <<>>
    ELSE (IF toc_order[k + 1] # chunk_order[k + 1]
          THEN <<[expected |-> toc_order[k + 1],
                  found |-> chunk_order[k + 1],
                  position |-> k + 1]>>
          ELSE <<>>)
         \o OutOfOrderFromOne(toc_order, chunk_order, k + 1)

\* the loop over enumerate(zip(toc_order, chunk_order)), from position k on;
\* position is counted from 0
RECURSIVE OutOfOrder(_, _, _)
OutOfOrder(toc_order, chunk_order, k) ==
    IF k >= Len(toc_order) \/ k >= Len(chunk_order) THEN <<>>
    ELSE (IF toc_order[k + 1] # chunk_order[k + 1]
          THEN <<[expected |-> toc_order[k + 1],
                  found |-> chunk_order[k + 1],
                  position |-> k]>>
          ELSE <<>>)
         \o OutOfOrder(toc_order, chunk_order, k + 1)

\* the division without its guard
MatchPercentageUnguarded(matched, toc_sections) ==
    [num |-> Len(matched) * 100, den |-> Len(toc_sections)]

\* len(matched)/len(toc_sections)*100 if toc_sections else 0, as a fraction; a
\* denominator of 0 is the division that raises ZeroDivisionError
MatchPercentage(matched, toc_sections) ==
    IF toc_sections # <<>>
    THEN [num |-> Len(matched) * 100, den |-> Len(toc_sections)]
    ELSE [num |-> 0, den |-> 1]

\* the chunk keys left once the fuzzy matches are taken out as well
ExtraInChunksUnmatched(toc_sections, chunked_sections) ==
    {chunked_sections[k] : k \in 1..Len(chunked_sections)}
        \ {chunked_sections[k] : k \in
              {n \in 1..Len(chunked_sections) :
                  \E t \in 1..Len(toc_sections) :
                      \/ toc_sections[t] = chunked_sections[n]
                      \/ RatGreater(Ratio(toc_sections[t], chunked_sections[n]),
                                    Tenths(FuzzyAcceptTenths))}}

\* set(chunked_sections.keys()) - set(toc_sections.keys())
ExtraInChunks(toc_sections, chunked_sections) ==
    {chunked_sections[k] : k \in 1..Len(chunked_sections)}
        \ {toc_sections[k] : k \in 1..Len(toc_sections)}

\* the report; extra_sections is list(set), whose order is not fixed: a set
Report(entries, cs) ==
    LET toc_sections == DictKeys(FullPaths(entries))
        chunked_sections == DictKeys(StartHeadings(cs))
        matched == Sorted(toc_sections, chunked_sections, TRUE)
        missing_from_chunks == Sorted(toc_sections, chunked_sections, FALSE)
        toc_order == FullPaths(entries)
        chunk_order == KnownTo(StartHeadings(cs), toc_order)
    IN  [toc_section_count |-> Len(toc_sections),
         parsed_section_count |-> Len(chunked_sections),
         matched_sections |-> matched,
         missing_sections |-> missing_from_chunks,
         extra_sections |-> ExtraInChunks(toc_sections, chunked_sections),
         out_of_order_sections |-> OutOfOrder(toc_order, chunk_order, 0),
         match_percentage |-> MatchPercentage(matched, toc_sections)]

\* computing the report raises ZeroDivisionError
ReportRaises(entries, cs) == Report(entries, cs).match_percentage.den = 0

\* the report is stored and returned, unless computing it raised
validate_structure ==
    /\ pc = "validate_structure"
    /\ IF ReportRaises(toc_entries, document_chunks)
       THEN Raises /\ UNCHANGED <<calls, validation_report>>
       ELSE /\ validation_report' = <<Report(toc_entries, document_chunks)>>
            /\ Returns("validate_structure")
            /\ UNCHANGED exit_code
    /\ UNCHANGED <<inputVars, tocLocals, toc_entries, chunkLocals, document_chunks,
                   out_file>>

(***************************************************************************)
(* save_outputs: usb_pd.jsonl holds one JSON object for each ToC entry.    *)
(***************************************************************************)
save_outputs ==
    /\ pc = "save_outputs"
    /\ out_file' = <<toc_entries>>
    /\ Returns("save_outputs")
    /\ UNCHANGED <<inputVars, tocLocals, toc_entries, chunkLocals, document_chunks,
                   validation_report, exit_code>>

(***************************************************************************)
(* The specification.                                                      *)
(***************************************************************************)
Next ==
    \/ main_input_missing
    \/ main_call_extract_toc
    \/ extract_toc_page
    \/ extract_toc_raise
    \/ extract_toc_return
    \/ chunk_skip_page
    \/ chunk_heading_line
    \/ chunk_body_line
    \/ chunk_return
    \/ validate_structure
    \/ save_outputs
    \/ main_return

Spec == Init /\ [][Next]_vars

(***************************************************************************)
(* What the claims speak of.                                               *)
(***************************************************************************)
\* the lines chunk_document has processed so far, in order
RECURSIVE Flatten(_)
Flatten(texts) ==
    IF texts = <<>> THEN <<>> ELSE Head(texts) \o Flatten(Tail(texts))

ProcessedLines ==
    IF pg > Len(pages) THEN Flatten(pages)
    ELSE Flatten(SubSeq(pages, 1, pg - 1)) \o SubSeq(pages[pg], 1, ln - 1)

HeadingProcessed ==
    \E k \in 1..Len(ProcessedLines) : heading_match(ProcessedLines[k])

\* the integer segments of a section id
Segments(section_id) == IntList(SplitOn(section_id, "."))

\* a <= b on tuples of integers, component by component, a prefix first
TupleLeq(a, b) ==
    \/ Len(a) <= Len(b) /\ \A k \in 1..Len(a) : a[k] = b[k]
    \/ \E k \in 1..Min(Len(a), Len(b)) :
           a[k] < b[k] /\ \A m \in 1..(k - 1) : a[m] = b[m]

\* a is b with one or more of its last dot-segments removed
ProperSegmentPrefix(a, b) ==
    LET sa == SplitOn(a, ".")
        sb == SplitOn(b, ".")
    IN  Len(sa) < Len(sb) /\ SubSeq(sb, 1, Len(sa)) = sa

Stages == <<"extract_toc", "chunk_document", "validate_structure", "save_outputs">>

\* some page with text satisfies the ToC-page predicate
TocPagePresent ==
    \E k \in 1..Len(pages) : pages[k] # <<>> /\ IsTocPage(pages[k])

ExtractTocOver == calls # <<>> /\ pc # "extract_toc"

ExtractTocRaised == pc = "exit" /\ exit_code = <<1>> /\ calls = <<"extract_toc">>

ExtractTocReturned == Len(calls) >= 2

\* validate_structure has run on a ToC order [A, B, C] of three distinct paths
\* and a chunk order, filtered to the ToC's paths, of [A, C, B]
ScenarioE ==
    /\ validation_report # <<>>
    /\ LET t == FullPaths(toc_entries)
           c == KnownTo(StartHeadings(document_chunks), t)
       IN  /\ Len(t) = 3
           /\ t[1] # t[2] /\ t[1] # t[3] /\ t[2] # t[3]
           /\ c = <<t[1], t[3], t[2]>>

(***************************************************************************)
(* The claims.                                                             *)
(***************************************************************************)
\* C1: every chunk of the list chunk_document returns has
\* page_range.start <= page_range.end.
C1_PageRangeOrdered ==
    \A k \in 1..Len(document_chunks) :
        document_chunks[k].page_range[1] <= document_chunks[k].page_range[2]

\* C2, as claimed: in scenario E out_of_order_sections holds exactly one
\* record, {expected: B, found: C, position: 1}.
C2_ScenarioE_OneRecord ==
    ScenarioE =>
        LET t == FullPaths(toc_entries)
        IN  validation_report[1].out_of_order_sections
                = <<[expected |-> t[2], found |-> t[3], position |-> 1]>>

\* C2, amended: in scenario E out_of_order_sections holds exactly two records,
\* {expected: B, found: C, position: 1} and {expected: C, found: B, position: 2}.
C2_ScenarioE_TwoRecords ==
    ScenarioE =>
        LET t == FullPaths(toc_entries)
        IN  validation_report[1].out_of_order_sections
                = <<[expected |-> t[2], found |-> t[3], position |-> 1],
                    [expected |-> t[3], found |-> t[2], position |-> 2]>>

C2_Witness == ScenarioE

\* C3: during and after the chunking pass the levels of the heading stack
\* strictly increase from bottom to top, and the top frame is the heading that
\* opened the open chunk (the stack is empty exactly while no chunk is open).
C3_StackStrictlyIncreasing ==
    /\ \A k \in 1..(Len(heading_stack) - 1) :
           heading_stack[k].level < heading_stack[k + 1].level
    /\ current_chunk = <<>> <=> heading_stack = <<>>
    /\ current_chunk # <<>> =>
           heading_stack[Len(heading_stack)].heading = current_chunk[1].start_heading

\* a heading has closed a chunk and popped a frame, and two frames are stacked
C3_Witness ==
    /\ pc = "chunk_document"
    /\ Len(chunks) >= 2
    /\ Len(heading_stack) = 2

\* C4: every frame below the top of the heading stack holds a heading whose
\* section id is a proper dot-segment prefix of the open chunk's section id.
C4_StackIsAncestorChain ==
    current_chunk # <<>> =>
        \A k \in 1..(Len(heading_stack) - 1) :
            ProperSegmentPrefix(FirstToken(heading_stack[k].heading),
                                FirstToken(current_chunk[1].start_heading))

\* C5, as claimed: after each processed line of the chunking pass exactly one
\* chunk is open.
C5_ExactlyOneOpen ==
    (pc = "chunk_document" /\ ProcessedLines # <<>>) => Len(current_chunk) = 1

\* C5, amended: at every point of the chunking pass at most one chunk is open,
\* and one is open exactly when a heading line has been processed; none is open
\* before the first heading.
C5_OpenIffHeadingSeen ==
    pc = "chunk_document" =>
        /\ Len(current_chunk) <= 1
        /\ current_chunk # <<>> <=> HeadingProcessed

\* lines have been processed and dropped, no chunk being open
C5_Witness ==
    /\ pc = "chunk_document"
    /\ ProcessedLines # <<>>
    /\ current_chunk = <<>>

\* C6: no two entries of toc_entries have the same section_id.
C6_EntriesUniqueById ==
    \A m, n \in 1..Len(toc_entries) :
        m # n => toc_entries[m].section_id # toc_entries[n].section_id

\* C7: validate_structure never raises; match_percentage lies in [0, 100], is
\* 0 when the ToC entry list is empty, and otherwise is 100 times the number of
\* matched paths over toc_section_count, the number of ToC sections.
C7_MatchPercentage ==
    ("validate_structure" \in {calls[k] : k \in 1..Len(calls)}
        /\ pc # "validate_structure") =>
        /\ exit_code # <<1>>
        /\ validation_report # <<>>
        /\ LET r == validation_report[1]
               q == r.match_percentage
           IN  /\ q.den > 0
               /\ 0 <= q.num
               /\ q.num <= 100 * q.den
               /\ toc_entries = <<>> => q.num = 0
               /\ toc_entries # <<>> =>
                      /\ r.toc_section_count > 0
                      /\ q.num * r.toc_section_count
                             = 100 * Len(r.matched_sections) * q.den

\* a report whose match_percentage is strictly between 0 and 100
C7_Witness ==
    /\ validation_report # <<>>
    /\ validation_report[1].match_percentage.num > 0
    /\ validation_report[1].match_percentage.num
           < 100 * validation_report[1].match_percentage.den

\* C8: extract_toc raises exactly when no page with text satisfies the ToC-page
\* predicate; when it raises toc_entries is as it was, and when a page
\* satisfies the predicate it returns.
C8_RaisesIffNoTocPage ==
    ExtractTocOver =>
        /\ ExtractTocRaised <=> ~TocPagePresent
        /\ ExtractTocReturned <=> TocPagePresent
        /\ ExtractTocRaised => toc_entries = <<>>

\* extract_toc has raised on a page of ToC-shaped lines, fewer than 5 of them
C8_Witness ==
    /\ ExtractTocRaised
    /\ \E k \in 1..Len(pages) : \E n \in 1..Len(pages[k]) : toc_like(pages[k][n])

\* C9: main calls extract_toc, chunk_document, validate_structure and
\* save_outputs in this order, each after the one before has returned; with the
\* input path missing nothing is called; after a raise nothing more is called,
\* save_outputs has not been called, no file is written and main returns 1;
\* main returns 0 only after all four calls, the file written.
C9_PipelineOrder ==
    /\ Len(calls) <= Len(Stages) /\ calls = SubSeq(Stages, 1, Len(calls))
    /\ pc = "main" => calls = <<>>
    /\ pc \in {Stages[k] : k \in 1..Len(Stages)} => calls # <<>> /\ calls[Len(calls)] = pc
    /\ pc = "return" => calls = Stages
    /\ pc = "exit" <=> exit_code # <<>>
    /\ ~path_exists => calls = <<>> /\ exit_code # <<0>>
    /\ exit_code = <<0>> => calls = Stages /\ out_file # <<>>
    /\ exit_code = <<1>> => Len(calls) < Len(Stages) /\ out_file = <<>>
    /\ out_file # <<>> => calls = Stages

\* a stage has raised: main has returned 1 after its first call
C9_Witness ==
    /\ path_exists
    /\ pc = "exit"
    /\ exit_code = <<1>>
    /\ calls = <<"extract_toc">>
    /\ out_file = <<>>

\* C10: the list extract_toc returns is in non-decreasing order of section_id
\* read as a tuple of integers, and sorting it again leaves it as it is.
C10_SortedByIntegerTuple ==
    ExtractTocReturned =>
        /\ \A m, n \in 1..Len(toc_entries) :
               m < n => TupleLeq(Segments(toc_entries[m].section_id),
                                 Segments(toc_entries[n].section_id))
        /\ SortEntries(toc_entries) = toc_entries

\* 2 precedes 2.9, which precedes 2.10, the rows having come in another order
C10_Witness ==
    /\ ExtractTocReturned
    /\ Len(toc_entries) = 3
    /\ toc_entries[1].section_id = <<"2">>
    /\ toc_entries[2].section_id = <<"2", ".", "9">>
    /\ toc_entries[3].section_id = <<"2", ".", "1", "0">>
    /\ pages[1][2] = Row210A

\* C11: every entry of _parse_toc_line has as level the number of dots of its
\* section_id plus 1, that is the number of its dot-segments; parent_id is None
\* exactly at level 1 and else the section_id without its last segment, one
\* level up; full_path is section_id, one space, title.
C11_EntryFields ==
    \A k \in 1..Len(toc_entries) :
        LET e == toc_entries[k]
            dots == {n \in 1..Len(e.section_id) : e.section_id[n] = "."}
        IN  /\ e.level = Cardinality(dots) + 1
            /\ e.level = Len(Segments(e.section_id))
            /\ e.parent_id = <<>> <=> e.level = 1
            /\ e.parent_id # <<>> =>
                   /\ e.section_id = e.parent_id[1] \o <<".">>
                          \o SplitOn(e.section_id, ".")[e.level]
                   /\ Len(Segments(e.parent_id[1])) = e.level - 1
            /\ Len(e.full_path) = Len(e.section_id) + 1 + Len(e.title)
            /\ SubSeq(e.full_path, 1, Len(e.section_id)) = e.section_id
            /\ e.full_path[Len(e.section_id) + 1] = " "
            /\ SubSeq(e.full_path, Len(e.section_id) + 2, Len(e.full_path)) = e.title

\* the entry of a row of three levels: 2.1.3, parent 2.1, page 45
C11_Witness ==
    /\ toc_entries # <<>>
    /\ toc_entries[1].section_id = <<"2", ".", "1", ".", "3">>
    /\ toc_entries[1].title = <<"A", "b">>
    /\ toc_entries[1].page = 45
    /\ toc_entries[1].level = 3
    /\ toc_entries[1].parent_id = << <<"2", ".", "1">> >>

\* the dict keys, as sets
TocPaths == {toc_entries[k].full_path : k \in 1..Len(toc_entries)}

ChunkKeys == {document_chunks[k].start_heading : k \in 1..Len(document_chunks)}

\* the ratio of two strings is above num/den
RatioAbove(a, b, num, den) == Ratio(a, b).num * den > num * Ratio(a, b).den

RatioIs(a, b, num, den) == Ratio(a, b).num * den = num * Ratio(a, b).den

\* C12: a ToC path that is no chunk key is in matched_sections exactly when
\* some chunk key is at a ratio strictly above 0.9 of it, and in
\* missing_sections otherwise, so also when the best ratio is exactly 0.9 or
\* lies between 0.8 and 0.9: the test against 0.8 changes nothing.
C12_MatchedIffAboveNineTenths ==
    validation_report # <<>> =>
        \A p \in TocPaths \ ChunkKeys :
            LET above == \E c \in ChunkKeys : RatioAbove(p, c, 9, 10)
            IN  /\ InSeq(p, validation_report[1].matched_sections) <=> above
                /\ InSeq(p, validation_report[1].missing_sections) <=> ~above

\* a path whose best chunk key is at exactly 0.9 is missing, and so is one
\* whose best lies strictly between 0.8 and 0.9
C12_Witness ==
    /\ validation_report # <<>>
    /\ \E p \in TocPaths \ ChunkKeys :
           /\ \E c \in ChunkKeys : RatioIs(p, c, 9, 10)
           /\ \A c \in ChunkKeys : ~RatioAbove(p, c, 9, 10)
           /\ InSeq(p, validation_report[1].missing_sections)
    /\ \E q \in TocPaths \ ChunkKeys :
           /\ \E c \in ChunkKeys : RatioAbove(q, c, 8, 10)
           /\ \A c \in ChunkKeys : ~RatioAbove(q, c, 9, 10) /\ ~RatioIs(q, c, 9, 10)
           /\ InSeq(q, validation_report[1].missing_sections)

\* chunk_document has returned to main
ChunkDocumentReturned == Len(calls) >= 3

\* the pages that hold a heading line
HeadingPages ==
    {k \in 1..Len(pages) : \E n \in 1..Len(pages[k]) : heading_match(pages[k][n])}

Max(S) == CHOOSE x \in S : \A y \in S : y <= x

\* the page of the last heading of the document, and the last page that has
\* given a line to the chunk that heading opens: every page with text after it
LastHeadingPage == Max(HeadingPages)

LastPageTouched ==
    Max({LastHeadingPage} \cup {k \in 1..Len(pages) : k > LastHeadingPage /\ pages[k] # <<>>})

\* C13: the chunk still open at the end of the document is the last element of
\* the returned list, and its page_range ends at the last page from which a
\* line was added to its content.
C13_LastChunkEndsAtLastPageTouched ==
    (ChunkDocumentReturned /\ HeadingPages # {}) =>
        /\ document_chunks # <<>>
        /\ document_chunks[Len(document_chunks)].page_range[1] = LastHeadingPage
        /\ document_chunks[Len(document_chunks)].page_range[2] = LastPageTouched

\* the texts of the pages of the 0-based indices S, in increasing order
RECURSIVE PagesAt(_)
PagesAt(S) ==
    IF S = {} THEN <<>>
    ELSE PagesAt(S \ {Max(S)}) \o <<pages[Max(S) + 1]>>

\* what one step of the scan has newly marked as visited
NewlyVisited == visited_pages' \ visited_pages

\* C14: the windows extract_toc claims are pairwise disjoint; each starts at
\* a page that is not yet visited and satisfies the ToC-page predicate, covers
\* at most 5 consecutive pages and ends at the last page at the latest; the
\* text of no page is given to the line parser more than once.
C14_WindowsDisjoint ==
    /\ [](/\ visited_pages \subseteq 0..(Len(pages) - 1)
          /\ toc_pages = PagesAt(visited_pages))
    /\ [][(toc_pages' # toc_pages \/ visited_pages' # visited_pages) =>
            \/ pc = "main" /\ toc_pages' = <<>> /\ visited_pages' = {}
            \/ /\ pc = "extract_toc"
               /\ i \notin visited_pages
               /\ pages[i + 1] # <<>> /\ IsTocPage(pages[i + 1])
               /\ \E n \in 1..5 :
                      /\ NewlyVisited = i..(i + n - 1)
                      /\ n = 5 \/ i + n = Len(pages)
               /\ NewlyVisited \cap visited_pages = {}
               /\ visited_pages' = visited_pages \cup NewlyVisited
               /\ toc_pages' = toc_pages \o PagesAt(NewlyVisited)]_vars

\* six pages: the window of page 0 holds a second ToC page, which starts no
\* window, and the window of page 5 is cut at the last page
C14_Witness ==
    /\ Len(pages) = 6
    /\ i = 6
    /\ visited_pages = 0..5
    /\ Len(toc_pages) = 6
    /\ IsTocPage(pages[1])
    /\ pages[2] # <<>> /\ IsTocPage(pages[2])
    /\ pages[6] # <<>> /\ IsTocPage(pages[6])

\* seq is the front of longer
IsPrefix(seq, longer) ==
    Len(seq) <= Len(longer) /\ SubSeq(longer, 1, Len(seq)) = seq

\* word is in line
Holds(word, line) ==
    \E k \in 1..(Len(line) - Len(word) + 1) : SubSeq(line, k, k + Len(word) - 1) = word

\* the line as it is, and the line without the whitespace at its two ends
AsItIs(line) == line

Trimmed(line) ==
    LET inner == {k \in 1..Len(line) : line[k] \notin WS}
    IN  IF inner = {} THEN <<>>
        ELSE SubSeq(line, CHOOSE k \in inner : \A m \in inner : k <= m, Max(inner))

\* What one step of the chunking pass may change: the finalized chunks stay
\* as they are, in the list and in what is returned; a line that is no heading
\* changes nothing when no chunk is open, and else gives the open chunk the
\* line and a newline in content and Noted(line) in tables, in figures, when
\* it contains 'Table', 'Figure'.
ChunkFrame(Noted(_)) ==
    pc = "chunk_document" =>
        /\ IsPrefix(chunks, IF pc' = "chunk_document" THEN chunks' ELSE document_chunks')
        /\ (pg <= Len(pages) /\ pages[pg] # <<>> /\ ~heading_match(pages[pg][ln])) =>
               LET line == pages[pg][ln]
               IN  /\ chunks' = chunks
                   /\ heading_stack' = heading_stack
                   /\ UNCHANGED <<toc_entries, document_chunks, validation_report, out_file>>
                   /\ current_chunk = <<>> => current_chunk' = <<>>
                   /\ current_chunk # <<>> =>
                          /\ Len(current_chunk') = 1
                          /\ current_chunk'[1].section_path = current_chunk[1].section_path
                          /\ current_chunk'[1].start_heading = current_chunk[1].start_heading
                          /\ current_chunk'[1].page_range = current_chunk[1].page_range
                          /\ current_chunk'[1].content
                                 = current_chunk[1].content \o line \o <<"\n">>
                          /\ current_chunk'[1].tables
                                 = current_chunk[1].tables
                                      \o (IF Holds(<<"T", "a", "b", "l", "e">>, line)
                                          THEN <<Noted(line)>> ELSE <<>>)
                          /\ current_chunk'[1].figures
                                 = current_chunk[1].figures
                                      \o (IF Holds(<<"F", "i", "g", "u", "r", "e">>, line)
                                          THEN <<Noted(line)>> ELSE <<>>)

\* C15, as claimed: a line that is no heading changes only the open chunk,
\* whose content gains the line and a newline and whose tables, figures gain
\* the line when it contains 'Table', 'Figure'; finalized chunks and the
\* heading stack stay, and before any heading nothing changes.
C15_FrameLineAsItIs == [][ChunkFrame(AsItIs)]_vars

\* C15, amended: the same, but tables and figures gain the line without the
\* whitespace at its two ends.
C15_FrameLineTrimmed == [][ChunkFrame(Trimmed)]_vars

\* a finalized chunk, and an open one that took the padded line " Table"
C15_Witness ==
    /\ pc = "chunk_document"
    /\ chunks # <<>>
    /\ current_chunk # <<>>
    /\ current_chunk[1].content = LineTablePadded \o <<"\n">>
    /\ current_chunk[1].tables = << <<"T", "a", "b", "l", "e">> >>

\* the chunk key c is the best_match the loop has kept for the ToC path p,
\* which is no chunk key itself, and is accepted: above 0.9
ServedAsFuzzyMatch(c, p) ==
    /\ p \in TocPaths \ ChunkKeys
    /\ c \in ChunkKeys
    /\ RatioAbove(p, c, 9, 10)
    /\ BestMatch(p, DictKeys(StartHeadings(document_chunks)),
                 [best_ratio |-> [num |-> 0, den |-> 1], best_match |-> <<>>]).best_match
           = <<c>>

\* C16, as claimed: extra_sections is the set of the chunk keys equal to no
\* ToC full_path, and a chunk key that served as the fuzzy match of a ToC path
\* is in extra_sections while the path is in matched_sections.
C16_FuzzyMatchIsExtra ==
    validation_report # <<>> =>
        /\ validation_report[1].extra_sections = ChunkKeys \ TocPaths
        /\ \A p \in TocPaths : \A c \in ChunkKeys :
               ServedAsFuzzyMatch(c, p) =>
                   /\ c \in validation_report[1].extra_sections
                   /\ InSeq(p, validation_report[1].matched_sections)

\* C16, amended: extra_sections is the set of the chunk keys equal to no ToC
\* full_path; a chunk key that served as the fuzzy match of a ToC path is in
\* extra_sections unless it is itself equal to another ToC full_path, and the
\* path is in matched_sections.
C16_FuzzyMatchIsExtraUnlessTocPath ==
    validation_report # <<>> =>
        /\ validation_report[1].extra_sections = ChunkKeys \ TocPaths
        /\ \A p \in TocPaths : \A c \in ChunkKeys :
               ServedAsFuzzyMatch(c, p) =>
                   /\ c \in validation_report[1].extra_sections <=> c \notin TocPaths
                   /\ InSeq(p, validation_report[1].matched_sections)

\* a path matched by a chunk key that is near it and equal to no ToC path:
\* the key is extra, the path is matched
C16_Witness ==
    /\ validation_report # <<>>
    /\ \E p \in TocPaths : \E c \in ChunkKeys :
           /\ ServedAsFuzzyMatch(c, p)
           /\ c \notin TocPaths
           /\ c \in validation_report[1].extra_sections
           /\ InSeq(p, validation_report[1].matched_sections)

\* T: the full_path of the ToC entries in their order; C: the start_heading
\* of the chunks in the order they were opened, those that occur in T
OrderT == [k \in 1..Len(toc_entries) |-> toc_entries[k].full_path]

OrderC ==
    SelectSeq([k \in 1..Len(document_chunks) |-> document_chunks[k].start_heading],
              LAMBDA h : h \in TocPaths)

\* the positions, counted from 0, below both lengths at which T and C differ
Mismatches ==
    {n \in 0..(Min(Len(OrderT), Len(OrderC)) - 1) : OrderT[n + 1] # OrderC[n + 1]}

\* C17: out_of_order_sections holds one record {expected: T[i], found: C[i],
\* position: i} for exactly the positions i < min(|T|, |C|) with T[i] # C[i],
\* in increasing order of i, and none for a position at or past the shorter
\* length.
C17_OutOfOrderRecords ==
    validation_report # <<>> =>
        LET records == validation_report[1].out_of_order_sections
        IN  /\ Len(records) = Cardinality(Mismatches)
            /\ \A k \in 1..Len(records) :
                   /\ records[k].position \in Mismatches
                   /\ records[k].expected = OrderT[records[k].position + 1]
                   /\ records[k].found = OrderC[records[k].position + 1]
            /\ \A k \in 1..(Len(records) - 1) :
                   records[k].position < records[k + 1].position

\* T and C of different lengths that agree at one position and differ at a
\* later one
C17_Witness ==
    /\ validation_report # <<>>
    /\ Len(OrderT) # Len(OrderC)
    /\ \E n \in Mismatches : \E a \in 0..(n - 1) : a \notin Mismatches
    /\ validation_report[1].out_of_order_sections # <<>>

\* the heading lines among `lines`, in their order, each as Shown(line)
HeadingLines(lines, Shown(_)) ==
    LET found == SelectSeq(lines, LAMBDA l : heading_match(l))
    IN  [k \in 1..Len(found) |-> Shown(found[k])]

\* the lines after the first heading line that are no heading lines, each
\* with its newline, one after the other
RECURSIVE BodyText(_, _)
BodyText(lines, opened) ==
    IF lines = <<>> THEN <<>>
    ELSE IF heading_match(Head(lines)) THEN BodyText(Tail(lines), TRUE)
    ELSE (IF opened THEN Head(lines) \o <<"\n">> ELSE <<>>)
         \o BodyText(Tail(lines), opened)

\* the content of the chunks, one after the other
RECURSIVE Contents(_)
Contents(cs) ==
    IF cs = <<>> THEN <<>> ELSE Head(cs).content \o Contents(Tail(cs))

\* The chunks opened so far in the pass, and the chunks returned, are one for
\* each heading line of the pages with text, in the order of the document,
\* with Shown(line) as start_heading; their content is the other lines, from
\* the first heading on.
OneChunkPerHeading(Shown(_)) ==
    /\ pc = "chunk_document" =>
           /\ [k \in 1..Len(chunks \o current_chunk)
                  |-> (chunks \o current_chunk)[k].start_heading]
                  = HeadingLines(ProcessedLines, Shown)
           /\ Contents(chunks \o current_chunk) = BodyText(ProcessedLines, FALSE)
    /\ ChunkDocumentReturned =>
           /\ [k \in 1..Len(document_chunks) |-> document_chunks[k].start_heading]
                  = HeadingLines(Flatten(pages), Shown)
           /\ Contents(document_chunks) = BodyText(Flatten(pages), FALSE)

\* C18, as claimed: chunk_document returns one chunk for each heading line of
\* the pages with text, in document order; the start_heading of the k-th
\* chunk is the k-th heading line; pages without text give no chunk and no
\* content.
C18_ChunkPerHeadingLine == OneChunkPerHeading(AsItIs)

\* C18, amended: the same, the start_heading of the k-th chunk being the k-th
\* heading line without the whitespace at its two ends.
C18_ChunkPerTrimmedHeadingLine == OneChunkPerHeading(Trimmed)

\* returned: two chunks or more, one of them opened by a padded heading line
C18_Witness ==
    /\ ChunkDocumentReturned
    /\ Len(document_chunks) >= 2
    /\ \E k \in 1..Len(document_chunks) : \E p \in 1..Len(pages) :
           \E n \in 1..Len(pages[p]) :
               /\ heading_match(pages[p][n])
               /\ pages[p][n] # document_chunks[k].start_heading
               /\ Trimmed(pages[p][n]) = document_chunks[k].start_heading

NoRepeats(seq) == \A j, k \in 1..Len(seq) : seq[j] = seq[k] => j = k

Range(seq) == {seq[k] : k \in 1..Len(seq)}

\* C19: in every report matched_sections and missing_sections have no path in
\* common, hold no path twice, and hold between them exactly the distinct
\* full_path values of the ToC, so that their lengths add up to
\* toc_section_count.
C19_MatchedAndMissingPartition ==
    validation_report # <<>> =>
        LET matched == validation_report[1].matched_sections
            missing == validation_report[1].missing_sections
        IN  /\ Range(matched) \cap Range(missing) = {}
            /\ NoRepeats(matched)
            /\ NoRepeats(missing)
            /\ Range(matched) \cup Range(missing) = TocPaths
            /\ validation_report[1].toc_section_count = Cardinality(TocPaths)
            /\ Len(matched) + Len(missing) = validation_report[1].toc_section_count

\* a report on a ToC that holds a full_path twice: the path is matched once
C19_Witness ==
    /\ validation_report # <<>>
    /\ Len(toc_entries) > Cardinality(TocPaths)
    /\ validation_report[1].matched_sections # <<>>
    /\ validation_report[1].toc_section_count
           = Len(validation_report[1].matched_sections)
               + Len(validation_report[1].missing_sections)

=============================================================================
